---- MODULE Spec2Model ----
(***************************************************************************)
(* squeezeDetMX/kitti.py: the KITTI record writer (KITTIWriter.byteIter),  *)
(* the reader (KITTIIter.step / read_image / read_label), the anchor table *)
(* (create_anchors) and the label encoder (KITTIIter.batch_label_to_mx).   *)
(*                                                                         *)
(* Bytes are naturals 0..255, byte strings are sequences of bytes.  Box    *)
(* fields and pixel coordinates are naturals (floats that hold whole       *)
(* numbers); struct.pack's 'f' is the IEEE-754 binary32 encoding of them.  *)
(***************************************************************************)
EXTENDS Integers, Sequences, FiniteSets, TLC

\* ------------------------------------------------------------------ bounds
\* longest image (in pixels = bytes of the opaque encoding) fed to the writer
MaxImageLen == 2
\* most boxes in one example
MaxBoxes == 2
\* most junk bytes appended to a label blob of a hand-made stream
MaxExtra == 3
\* integers read from a size field are exact below SizeCap (see FromBytesLE)
SizeCap == 1000000
\* most calls made on one reader
MaxCalls == 3
\* create_anchors is called with num_x, num_y <= MaxGrid and <= MaxShapes shapes
MaxGrid == 5
MaxShapes == 2
\* most examples in one batch of labels, most boxes in one batch
MaxBatch == 2
MaxBatchBoxes == 3
\* records of a stream read with next(), pixels of an image and boxes of a
\* record of such a stream, bytes cut off its end
MaxRecords == 2
MaxRecImage == 1
MaxRecBoxes == 1
MaxDrop == 5
\* largest batch_size of a reader, calls made on such a reader
MaxBatchSize == 2
MaxIterCalls == 2
\* box fields packed: 0..MaxField, and 2^24 - 1 .. 2^24 - 1 + MaxBeyond;
\* class indices 0..MaxClass
MaxField == 2
MaxBeyond == 2
MaxClass == 2
\* lines of a label file
MaxLines == 3
\* a box scored against the anchors: center in 0..MaxBoxX, 0..MaxBoxY, width
\* and height in 1..MaxBoxSide
MaxBoxX == 14
MaxBoxY == 7
MaxBoxSide == 4

\* ------------------------------------------------------- program constants
\* constants.py is not part of the sources at hand; the widths are those of
\* the record format of the specification (image_size:u16, label_size:u32,
\* box entry ffffi).
IMAGE_BYTES_SLOT == 2
BBOXES_BYTES_SLOT == 4
\* struct.calcsize(BBOX_FORMAT), BBOX_FORMAT = 'ffffi'
BBOX_FORMAT_SIZE == 20
\* the width read_image reads for the size of the image (kitti.py:204)
READ_IMAGE_SLOT == 15
\* struct.calcsize(label_fmt), label_fmt = 'ffffi' (kitti.py:148)
LABEL_FMT_SIZE == 20

\* ----------------------------------------------------------- byte helpers
Min(a, b) == IF a < b THEN a ELSE b

RECURSIVE Pow2(_)
Pow2(n) == IF n = 0 THEN 1 ELSE 2 * Pow2(n - 1)

RECURSIVE Log2(_)
\* floor(log2(v)) for v >= 1
Log2(v) == IF v < 2 THEN 0 ELSE 1 + Log2(v \div 2)

RECURSIVE ToBytesLE(_, _)
\* int.to_bytes(width, 'little') for n < 256^width
ToBytesLE(n, width) ==
    IF width = 0 THEN << >>
    ELSE << n % 256 >> \o ToBytesLE(n \div 256, width - 1)

\* v < SizeCap is kept; a larger v is kept as a number >= SizeCap with the
\* same remainder modulo the box entry width.  The reader compares such a
\* number with the length of the buffer and divides it by the entry width,
\* nothing else.
Saturate(v) ==
    IF v < SizeCap THEN v
    ELSE SizeCap + ((v - SizeCap) % BBOX_FORMAT_SIZE)

RECURSIVE FromBytesLE(_)
\* int.from_bytes(bytes, 'little')
FromBytesLE(bytes) ==
    IF bytes = << >> THEN 0
    ELSE Saturate(bytes[1] + 256 * FromBytesLE(Tail(bytes)))

\* utils.size_in_bytes(bytedata, slot_size)
size_in_bytes(bytedata, slot_size) == ToBytesLE(Len(bytedata), slot_size)

RECURSIVE Join(_)
\* b''.join(list)
Join(list) == IF list = << >> THEN << >> ELSE Head(list) \o Join(Tail(list))

\* ---------------------------------------------------- struct.pack / unpack
\* the value unpack yields for a bit pattern that holds no natural < 2^27
NotNatural == -1

\* struct.pack('f', v), v a natural < 2^26: sign 0, exponent e+127 and a
\* mantissa of 23 bits.  A natural of more than 24 bits is rounded to the
\* nearest value of 24 bits, the even one of two equally near.
PackF32(v) ==
    IF v = 0 THEN << 0, 0, 0, 0 >>
    ELSE LET e == Log2(v)
             frac == v - Pow2(e)
             shift == IF e > 23 THEN e - 23 ELSE 0
             q == IF e > 23 THEN frac \div Pow2(shift) ELSE frac * Pow2(23 - e)
             rem == IF e > 23 THEN frac % Pow2(shift) ELSE 0
             up == 2 * rem > Pow2(shift) \/ (2 * rem = Pow2(shift) /\ q % 2 = 1)
             r == IF up THEN q + 1 ELSE q
             E == IF r = Pow2(23) THEN e + 128 ELSE e + 127
             M == IF r = Pow2(23) THEN 0 ELSE r
         IN  << M % 256,
                (M \div 256) % 256,
                ((M \div 65536) % 128) + 128 * (E % 2),
                E \div 2 >>

\* struct.unpack('f', b)
UnpackF32(b) ==
    LET sign == b[4] \div 128
        E == (b[4] % 128) * 2 + (b[3] \div 128)
        M == (b[3] % 128) * 65536 + b[2] * 256 + b[1]
    IN  IF sign = 0 /\ E = 0 /\ M = 0 THEN 0
        ELSE IF sign = 0 /\ E >= 127 /\ E <= 150 /\ M % Pow2(150 - E) = 0
             THEN Pow2(E - 127) + (M \div Pow2(150 - E))
             ELSE IF sign = 0 /\ E > 150 /\ E <= 153
             THEN (Pow2(23) + M) * Pow2(E - 150)
             ELSE NotNatural

\* struct.pack('i', c), -2^31 <= c < 2^31 (two's complement)
PackI32(c) ==
    LET lo == c % 16777216
        hi == (c - lo) \div 16777216
    IN  ToBytesLE(lo, 3) \o << hi % 256 >>

\* struct.unpack('i', b)
UnpackI32(b) ==
    b[1] + 256 * b[2] + 65536 * b[3]
      + 16777216 * (IF b[4] >= 128 THEN b[4] - 256 ELSE b[4])

\* struct.pack('ffffi', *bbox)
PackBBox(bbox) ==
    PackF32(bbox[1]) \o PackF32(bbox[2]) \o PackF32(bbox[3])
      \o PackF32(bbox[4]) \o PackI32(bbox[5])

\* struct.unpack with the class read first: the layout 'iffff'
UnpackBBoxClassFirst(entry) ==
    << UnpackF32(SubSeq(entry, 5, 8)), UnpackF32(SubSeq(entry, 9, 12)),
       UnpackF32(SubSeq(entry, 13, 16)), UnpackF32(SubSeq(entry, 17, 20)),
       UnpackI32(SubSeq(entry, 1, 4)) >>

\* struct.unpack('ffffi', entry), entry of 20 bytes
UnpackBBox(entry) ==
    << UnpackF32(SubSeq(entry, 1, 4)), UnpackF32(SubSeq(entry, 5, 8)),
       UnpackF32(SubSeq(entry, 9, 12)), UnpackF32(SubSeq(entry, 13, 16)),
       UnpackI32(SubSeq(entry, 17, 20)) >>

\* ------------------------------------------------------- the image codec
\* utils.image_to_jpeg_bytes / utils.jpeg_bytes_to_image: an opaque pair of
\* inverse maps between pixel rows and bytes (here: the complement).
image_to_jpeg_bytes(image) == [i \in 1..Len(image) |-> 255 - image[i]]

jpeg_bytes_to_image(bytes) == [i \in 1..Len(bytes) |-> 255 - bytes[i]]

\* ---------------------------------------------------------------- writer
\* the bytes KITTIWriter.byteIter yields for one (image, bboxes)
byteIterRecord(image, bboxes) ==
    LET image_bytes == image_to_jpeg_bytes(image)
        bboxes_bytes == Join([k \in 1..Len(bboxes) |-> PackBBox(bboxes[k])])
    IN  Join(<< size_in_bytes(image_bytes, IMAGE_BYTES_SLOT),
                image_bytes,
                size_in_bytes(bboxes_bytes, BBOXES_BYTES_SLOT),
                bboxes_bytes >>)

\* KITTIWriter.byteIter(images, labels): one byte string per zipped pair
byteIter(images, labels) ==
    [i \in 1..Min(Len(images), Len(labels)) |->
        byteIterRecord(images[i], labels[i])]

\* ---------------------------------------------------------------- reader
\* a step that drops what is left of the buffer when it fails
step_draining(buf, steps) ==
    IF buf = << >>
    THEN [ok |-> FALSE, rv |-> << >>, rest |-> buf, warned |-> FALSE]
    ELSE IF steps > Len(buf)
    THEN [ok |-> FALSE, rv |-> << >>, rest |-> << >>, warned |-> TRUE]
    ELSE [ok |-> TRUE, rv |-> SubSeq(buf, 1, steps),
          rest |-> SubSeq(buf, steps + 1, Len(buf)), warned |-> FALSE]

\* KITTIIter.step(steps) on the buffer buf.  ok = FALSE: StopIteration is
\* raised and the buffer is kept; warned: the warning was printed.
step(buf, steps) ==
    IF buf = << >>
    THEN [ok |-> FALSE, rv |-> << >>, rest |-> buf, warned |-> FALSE]
    ELSE IF steps > Len(buf)
    THEN [ok |-> FALSE, rv |-> << >>, rest |-> buf, warned |-> TRUE]
    ELSE [ok |-> TRUE, rv |-> SubSeq(buf, 1, steps),
          rest |-> SubSeq(buf, steps + 1, Len(buf)), warned |-> FALSE]

\* read_image with the image sliced off the buffer unchecked
\* (bytedata[:image_size] instead of step(image_size))
read_image_unchecked(buf) ==
    LET s1 == step(buf, READ_IMAGE_SLOT)
        image_size == FromBytesLE(s1.rv)
        got == Min(image_size, Len(s1.rest))
    IN  IF ~s1.ok
        THEN [op |-> "read_image", exc |-> "StopIteration", warned |-> s1.warned,
              size |-> -1, blob |-> << >>, value |-> << >>, rest |-> s1.rest,
              before |-> Len(buf)]
        ELSE [op |-> "read_image", exc |-> "none", warned |-> FALSE,
              size |-> image_size, blob |-> SubSeq(s1.rest, 1, got),
              value |-> jpeg_bytes_to_image(SubSeq(s1.rest, 1, got)),
              rest |-> SubSeq(s1.rest, got + 1, Len(s1.rest)),
              before |-> Len(buf)]

\* KITTIIter.read_image on the buffer buf.  size: the image_size read (-1 when
\* the size field itself could not be read); blob: the bytes handed to
\* jpeg_bytes_to_image; rest: the buffer the call leaves.
read_image(buf) ==
    LET s1 == step(buf, READ_IMAGE_SLOT)
        image_size == FromBytesLE(s1.rv)
        s2 == step(s1.rest, image_size)
    IN  IF ~s1.ok
        THEN [op |-> "read_image", exc |-> "StopIteration", warned |-> s1.warned,
              size |-> -1, blob |-> << >>, value |-> << >>, rest |-> s1.rest,
              before |-> Len(buf)]
        ELSE IF ~s2.ok
        THEN [op |-> "read_image", exc |-> "StopIteration", warned |-> s2.warned,
              size |-> image_size, blob |-> << >>, value |-> << >>,
              rest |-> s2.rest, before |-> Len(buf)]
        ELSE [op |-> "read_image", exc |-> "none", warned |-> FALSE,
              size |-> image_size, blob |-> s2.rv,
              value |-> jpeg_bytes_to_image(s2.rv), rest |-> s2.rest,
              before |-> Len(buf)]

RECURSIVE ReadEntries(_, _, _)
\* [struct.unpack(label_fmt, self.step(label_size)) for _ in range(n)]
ReadEntries(buf, label_size, n) ==
    IF n = 0
    THEN [ok |-> TRUE, boxes |-> << >>, rest |-> buf, warned |-> FALSE]
    ELSE LET s == step(buf, label_size)
         IN  IF ~s.ok
             THEN [ok |-> FALSE, boxes |-> << >>, rest |-> s.rest,
                   warned |-> s.warned]
             ELSE LET r == ReadEntries(s.rest, label_size, n - 1)
                  IN  [ok |-> r.ok,
                       boxes |-> IF r.ok THEN << UnpackBBox(s.rv) >> \o r.boxes
                                 ELSE << >>,
                       rest |-> r.rest, warned |-> r.warned]

\* read_label without its assert: int(num_labels) entries are read
read_label_unasserted(buf) ==
    LET s1 == step(buf, BBOXES_BYTES_SLOT)
        labels_size == FromBytesLE(s1.rv)
        label_size == BBOX_FORMAT_SIZE
        r == ReadEntries(s1.rest, label_size, labels_size \div label_size)
    IN  IF ~s1.ok
        THEN [op |-> "read_label", exc |-> "StopIteration", warned |-> s1.warned,
              size |-> -1, blob |-> << >>, value |-> << >>, rest |-> s1.rest,
              before |-> Len(buf)]
        ELSE IF ~r.ok
        THEN [op |-> "read_label", exc |-> "StopIteration", warned |-> r.warned,
              size |-> labels_size, blob |-> << >>, value |-> << >>,
              rest |-> r.rest, before |-> Len(buf)]
        ELSE [op |-> "read_label", exc |-> "none", warned |-> FALSE,
              size |-> labels_size,
              blob |-> SubSeq(s1.rest, 1, Len(s1.rest) - Len(r.rest)),
              value |-> r.boxes, rest |-> r.rest, before |-> Len(buf)]

\* KITTIIter.read_label on the buffer buf.  size: the labels_size read (-1
\* when the size field could not be read); value: the boxes returned.
read_label(buf) ==
    LET s1 == step(buf, BBOXES_BYTES_SLOT)
        labels_size == FromBytesLE(s1.rv)
        label_size == BBOX_FORMAT_SIZE
        r == ReadEntries(s1.rest, label_size, labels_size \div label_size)
    IN  IF ~s1.ok
        THEN [op |-> "read_label", exc |-> "StopIteration", warned |-> s1.warned,
              size |-> -1, blob |-> << >>, value |-> << >>, rest |-> s1.rest,
              before |-> Len(buf)]
        ELSE IF labels_size % label_size # 0
        THEN [op |-> "read_label", exc |-> "AssertionError", warned |-> FALSE,
              size |-> labels_size, blob |-> << >>, value |-> << >>,
              rest |-> s1.rest, before |-> Len(buf)]
        ELSE IF ~r.ok
        THEN [op |-> "read_label", exc |-> "StopIteration", warned |-> r.warned,
              size |-> labels_size, blob |-> << >>, value |-> << >>,
              rest |-> r.rest, before |-> Len(buf)]
        ELSE [op |-> "read_label", exc |-> "none", warned |-> FALSE,
              size |-> labels_size,
              blob |-> SubSeq(s1.rest, 1, Len(s1.rest) - Len(r.rest)),
              value |-> r.boxes, rest |-> r.rest, before |-> Len(buf)]

\* ------------------------------------------------ the streams that are read
\* the k-th box of an example written to a stream: [x, y, w, h, category]
StreamBox(k) == << 2 * k + 1, k + 1, 2, 3, k % 3 >>

\* an image of n pixels
StreamImage(n) == [i \in 1..n |-> 7 * i]

\* an example of n boxes
StreamBoxes(n) == [k \in 1..n |-> StreamBox(k)]

\* a record laid out as read_image and read_label read it: the size of the
\* image in READ_IMAGE_SLOT bytes, and `extra` junk bytes at the end of the
\* label blob, counted in its size field
HandMadeRecord(image, bboxes, extra) ==
    LET image_bytes == image_to_jpeg_bytes(image)
        bboxes_bytes == Join([k \in 1..Len(bboxes) |-> PackBBox(bboxes[k])])
                          \o [i \in 1..extra |-> 170]
    IN  Join(<< size_in_bytes(image_bytes, READ_IMAGE_SLOT),
                image_bytes,
                size_in_bytes(bboxes_bytes, BBOXES_BYTES_SLOT),
                bboxes_bytes >>)

\* --------------------------------------------------------- anchor table
\* constants.py is not part of the sources at hand: a small grid that keeps
\* the proportions of the real one (the spacing of the anchors is smaller
\* than GRID_WIDTH and GRID_HEIGHT, IMAGE_WIDTH // GRID_WIDTH < GRID_HEIGHT,
\* IMAGE_HEIGHT // GRID_HEIGHT < GRID_WIDTH, NUM_OUT_CHANNELS >=
\* ANCHORS_PER_GRID + 3).
GRID_WIDTH == 5
GRID_HEIGHT == 3
IMAGE_WIDTH == 12
IMAGE_HEIGHT == 6
ANCHORS_PER_GRID == 2
NUM_OUT_CHANNELS == 8
RANDOM_WIDTHS_HEIGHTS == << << 2, 2 >>, << 4, 2 >> >>

\* the sequence seq, written out (TLC would else keep the rule that yields
\* its entries and work every entry out again each time it is read)
Listed(seq) == SubSeq(seq, 1, Len(seq))

\* np.linspace(0, stop, num)[1:-1]: the num - 2 inner breakpoints (whole
\* numbers whenever num - 1 divides stop, as for every num the model draws)
linspace_inner(stop, num) ==
    Listed([k \in 1..(num - 2) |-> (k * stop) \div (num - 1)])

\* [(x, y, w, h) for x in xs for y in ys for w, h in whs], as a sequence
AnchorList(xs, ys, whs) ==
    Listed([n \in 1..(Len(xs) * Len(ys) * Len(whs)) |->
        LET cell == (n - 1) \div Len(whs)
            k == (n - 1) % Len(whs)
        IN  << xs[(cell \div Len(ys)) + 1], ys[(cell % Len(ys)) + 1],
               whs[k + 1][1], whs[k + 1][2] >>])

\* create_anchors(num_x, num_y, whs); np.vstack of an empty list raises
create_anchors(num_x, num_y, whs) ==
    LET xs == linspace_inner(IMAGE_WIDTH, num_x + 2)
        ys == linspace_inner(IMAGE_HEIGHT, num_x + 2)
        list == AnchorList(xs, ys, whs)
    IN  IF list = << >>
        THEN [exc |-> "ValueError", anchors |-> << >>, xs |-> xs, ys |-> ys]
        ELSE [exc |-> "none", anchors |-> list, xs |-> xs, ys |-> ys]

\* KITTIIter.anchors = create_anchors(); anchor index a is anchors[a + 1]
anchors == create_anchors(GRID_WIDTH, GRID_HEIGHT, RANDOM_WIDTHS_HEIGHTS).anchors

\* -------------------------------------------------------- label encoder
Max(a, b) == IF a > b THEN a ELSE b

\* the length two intervals share, in half pixels: centers c1, c2, widths w1, w2
Overlap(c1, w1, c2, w2) ==
    Max(0, Min(2 * c1 + w1, 2 * c2 + w2) - Max(2 * c1 - w1, 2 * c2 - w2))

\* utils.batch_iou(boxes, box): for each box of boxes, intersection over
\* union with box, as the fraction << intersection, union >> (both in
\* quarter pixels, so that no half is needed)
batch_iou(boxes, box) ==
    [n \in 1..Len(boxes) |->
        LET b == boxes[n]
            inter == Overlap(b[1], b[3], box[1], box[3])
                       * Overlap(b[2], b[4], box[2], box[4])
        IN  << inter, 4 * b[3] * b[4] + 4 * box[3] * box[4] - inter >>]

\* [np.linalg.norm(bbox[:4] - anchor) for anchor in anchors]: the distances,
\* as fractions; the square of each is kept, which orders them alike
norms(boxes, box) ==
    [n \in 1..Len(boxes) |->
        LET b == boxes[n]
        IN  << (box[1] - b[1]) * (box[1] - b[1]) + (box[2] - b[2]) * (box[2] - b[2])
               + (box[3] - b[3]) * (box[3] - b[3]) + (box[4] - b[4]) * (box[4] - b[4]),
               1 >>]

\* p < q for fractions of positive denominators
Less(p, q) == p[1] * q[2] < q[1] * p[2]

RECURSIVE ArgmaxFrom(_, _, _)
\* the scan of np.argmax: best is the place of the largest entry before place n
ArgmaxFrom(dists, n, best) ==
    IF n > Len(dists) THEN best
    ELSE IF Less(dists[best], dists[n]) THEN ArgmaxFrom(dists, n + 1, n)
    ELSE ArgmaxFrom(dists, n + 1, best)

RECURSIVE ArgmaxLastFrom(_, _, _)
\* the scan of an argmax that keeps the last of equal entries
ArgmaxLastFrom(dists, n, best) ==
    IF n > Len(dists) THEN best
    ELSE IF Less(dists[n], dists[best]) THEN ArgmaxLastFrom(dists, n + 1, best)
    ELSE ArgmaxLastFrom(dists, n + 1, n)

\* an argmax that returns the last index that holds the largest entry
argmax_last(dists) ==
    CHOOSE a \in { ArgmaxLastFrom(d, 2, 1) - 1 : d \in { Listed(dists) } } : TRUE

\* np.argmax(dists): the first index (from 0) that holds the largest entry
argmax(dists) ==
    CHOOSE a \in { ArgmaxFrom(d, 2, 1) - 1 : d \in { Listed(dists) } } : TRUE

\* max(dists) == 0 for the fractions of batch_iou
AllZero(dists) == \A n \in 1..Len(dists) : dists[n][1] = 0

\* steps 1 and 2 of batch_label_to_mx: the distances used for bbox
Distances(bbox) ==
    LET dists == batch_iou(anchors, bbox)
    IN  IF AllZero(dists) THEN norms(anchors, bbox) ELSE dists

\* the anchor index batch_label_to_mx assigns bbox to
SelectAnchor(bbox) == argmax(Distances(bbox))

\* step 3: where a box assigned to anchor_index is put
Placement(anchor_index) ==
    LET anchor == anchors[anchor_index + 1]
    IN  [grid_x |-> anchor[1] \div GRID_WIDTH,
         grid_y |-> anchor[2] \div GRID_HEIGHT,
         air |-> anchor_index % ANCHORS_PER_GRID]

\* np.zeros((n, NUM_OUT_CHANNELS, GRID_HEIGHT, GRID_WIDTH)): one tensor per
\* example, kept as the map from the positions << channel, grid_x, grid_y >>
\* written so far to their values; every other entry is 0
Zeros(n) == [i \in 1..n |-> << >>]

\* tensor[i, c, gx, gy]
At(tensor, i, c, gx, gy) ==
    IF << c, gx, gy >> \in DOMAIN tensor[i] THEN tensor[i][<< c, gx, gy >>] ELSE 0

\* final_label[i, air: air+4, grid_x, grid_y] is inside the tensor and takes
\* four values
CanWrite(place) ==
    /\ place.grid_x < GRID_HEIGHT
    /\ place.grid_y < GRID_WIDTH
    /\ place.air + 4 <= NUM_OUT_CHANNELS

\* final_label[i, air: air+4, grid_x, grid_y] = bbox[:4]
WriteBox(tensor, i, place, bbox) ==
    [tensor EXCEPT ![i] =
        [p \in { << place.air + k, place.grid_x, place.grid_y >> : k \in 0..3 }
            |-> bbox[p[1] - place.air + 1]] @@ @]

\* the boxes the encoder is fed: [x, y, w, h, category]
\* BoxOnFirst is anchor 0; BoxInFirst lies inside anchor 0; BoxOnWide is
\* anchor 11 and BoxOnSecond anchor 10 (both of the second column, first
\* row); BoxOutside overlaps no anchor.
BoxOnFirst == << 2, 1, 2, 2, 0 >>
BoxInFirst == << 2, 1, 2, 1, 1 >>
BoxOnWide == << 4, 1, 4, 2, 2 >>
BoxOnSecond == << 4, 1, 2, 2, 0 >>
BoxOutside == << 14, 3, 2, 2, 1 >>
BoxPool == { BoxOnFirst, BoxInFirst, BoxOnWide, BoxOnSecond, BoxOutside }

RECURSIVE SumTo(_, _)
\* sizes[1] + ... + sizes[n]
SumTo(sizes, n) == IF n = 0 THEN 0 ELSE sizes[n] + SumTo(sizes, n - 1)

\* the batch whose i-th example is the next sizes[i] boxes of flat
Split(flat, sizes) ==
    [i \in 1..Len(sizes) |->
        SubSeq(flat, SumTo(sizes, i - 1) + 1, SumTo(sizes, i))]

RECURSIVE Cursor(_, _, _)
\* the first (example, box) at or after (ex, bx) in the order of the two
\* loops of batch_label_to_mx; the example is Len(labels) + 1 when none is left
Cursor(labels, ex, bx) ==
    IF ex > Len(labels) THEN << ex, 1 >>
    ELSE IF bx <= Len(labels[ex]) THEN << ex, bx >>
    ELSE Cursor(labels, ex + 1, 1)

RECURSIVE EncodeFrom(_, _, _, _)
\* the two loops of batch_label_to_mx from the box at `cursor` on, with the
\* set of claimed anchors and the tensor as the loops left them so far
EncodeFrom(batch, cursor, taken, tensor) ==
    IF cursor[1] > Len(batch) THEN [exc |-> "none", label |-> tensor]
    ELSE LET box == batch[cursor[1]][cursor[2]]
             anchor_index == SelectAnchor(box)
             place == Placement(anchor_index)
             after == Cursor(batch, cursor[1], cursor[2] + 1)
         IN  IF anchor_index \in taken
             THEN EncodeFrom(batch, after, taken, tensor)
             ELSE IF ~CanWrite(place)
             THEN [exc |-> "IndexError", label |-> tensor]
             ELSE EncodeFrom(batch, after, taken \cup { anchor_index },
                             WriteBox(tensor, cursor[1], place, box))

\* KITTIIter.batch_label_to_mx(labels), as one call
batch_label_to_mx(batch) ==
    EncodeFrom(batch, Cursor(batch, 1, 1), {}, Zeros(Len(batch)))

\* ------------------------------------------------------------------ next()
\* KITTIIter.image_to_mx(image): the image resized to the shape of a batch
\* slot; kept as the slot's record of the image it was made of
image_to_mx(image) == [resized |-> image]

RECURSIVE NextLoop(_, _, _, _, _)
\* the for loop of next() from turn i (from 0) on.  filled: the slots of
\* batch_images assigned so far, in order; stopped: StopIteration was caught
\* in turn i; failed: the assert of read_label failed in turn i
NextLoop(buf, batch_size, i, filled, batch_labels) ==
    IF i = batch_size
    THEN [stopped |-> FALSE, failed |-> FALSE, i |-> batch_size - 1,
          filled |-> filled, batch_labels |-> batch_labels, rest |-> buf,
          warned |-> FALSE]
    ELSE CHOOSE turn \in UNION {
             { LET slot == Append(filled, image_to_mx(im.value))
               IN  IF im.exc # "none"
                   THEN [stopped |-> TRUE, failed |-> FALSE, i |-> i,
                         filled |-> filled, batch_labels |-> batch_labels,
                         rest |-> im.rest, warned |-> im.warned]
                   ELSE IF lb.exc # "none"
                   THEN [stopped |-> lb.exc = "StopIteration",
                         failed |-> lb.exc = "AssertionError", i |-> i,
                         filled |-> slot, batch_labels |-> batch_labels,
                         rest |-> lb.rest, warned |-> lb.warned]
                   ELSE NextLoop(lb.rest, batch_size, i + 1, slot,
                                 Append(batch_labels, lb.value))
               : lb \in { read_label(im.rest) } }
             : im \in { read_image(Listed(buf)) } } : TRUE

\* the slots (from 0) of batch_images that next() keeps and never assigned:
\* nd.empty leaves them uninitialised
UnassignedKept(loop, batch_size) ==
    IF loop.stopped /\ loop.i > 0
    THEN { j \in loop.i..(batch_size - 1) : j >= Len(loop.filled) }
    ELSE { }

\* KITTIIter.next() on the buffer buf of a reader made by from_bytes (record
\* is None).  garbage: what the uninitialised slots hold.  images, pad: the
\* data and the pad of the DataBatch; labels: the argument given to
\* batch_label_to_mx and label its result; examples: the images of the
\* complete examples (image and label) read by this call.
next(buf, batch_size, garbage) ==
    CHOOSE batch \in UNION {
      { LET i == loop.i
            k == Len(loop.batch_labels)
            slots == IF loop.stopped THEN i..(batch_size - 1)
                     ELSE 0..(batch_size - 1)
            batch_images ==
                [n \in 1..Cardinality(slots) |->
                    LET j == (IF loop.stopped THEN i ELSE 0) + n - 1
                    IN  IF j < Len(loop.filled) THEN loop.filled[j + 1]
                        ELSE garbage[j]]
            raised(e) ==
                [op |-> "next", exc |-> e, warned |-> loop.warned,
                 images |-> << >>, labels |-> << >>, label |-> << >>,
                 pad |-> 0, read |-> k,
                 examples |-> SubSeq(loop.filled, 1, k),
                 rest |-> loop.rest, before |-> Len(buf),
                 batch_size |-> batch_size]
        IN  IF loop.failed THEN raised("AssertionError")
            ELSE IF loop.stopped /\ i = 0 THEN raised("StopIteration")
            ELSE IF encoded.exc # "none" THEN raised(encoded.exc)
            ELSE [op |-> "next", exc |-> "none", warned |-> loop.warned,
                  images |-> Listed(batch_images),
                  labels |-> loop.batch_labels, label |-> encoded.label,
                  pad |-> batch_size - 1 - i, read |-> k,
                  examples |-> SubSeq(loop.filled, 1, k),
                  rest |-> loop.rest, before |-> Len(buf),
                  batch_size |-> batch_size]
        : encoded \in { batch_label_to_mx(loop.batch_labels) } }
      : loop \in { NextLoop(buf, batch_size, 0, << >>, << >>) } } : TRUE

\* ------------------------------------------------------------ read_bboxes
\* A line of a label file is kept as the list object_string.strip().split(' ')
\* makes of it: the class name, then the fields, a number standing for the
\* text of that number.
\* constants.CLASS_TO_INDEX is not part of the sources at hand: the classes
\* of the detector, by their lower-case names
CLASS_TO_INDEX == [car |-> 0, pedestrian |-> 1, cyclist |-> 2]

\* str.lower() on the class names that occur
lower(name) ==
    CASE name = "Car" -> "car"
      [] name = "Cyclist" -> "cyclist"
      [] name = "Van" -> "van"
      [] name = "DontCare" -> "dontcare"
      [] OTHER -> name

\* utils.bbox_transform_inv(x1, y1, x2, y2): corners to center, width, height
bbox_transform_inv(x1, y1, x2, y2) ==
    << (x1 + x2) \div 2, (y1 + y2) \div 2, x2 - x1, y2 - y1 >>

\* one turn of the loop of read_bboxes on a line of a known class: the box
\* appended, or the error raised when object_data[4:8] has not four fields
ParseLine(object_data) ==
    IF Len(object_data) < 8 THEN [exc |-> "TypeError"]
    ELSE [exc |-> "none",
          bbox |-> bbox_transform_inv(object_data[5], object_data[6],
                                      object_data[7], object_data[8])
                     \o << CLASS_TO_INDEX[lower(object_data[1])] >>]

RECURSIVE read_bboxes_unfiltered(_)
\* read_bboxes without the test of the class name: CLASS_TO_INDEX[...] raises
\* KeyError on an unknown name
read_bboxes_unfiltered(lines) ==
    IF lines = << >> THEN [exc |-> "none", bboxes |-> << >>]
    ELSE IF lower(Head(lines)[1]) \notin DOMAIN CLASS_TO_INDEX
    THEN [exc |-> "KeyError", bboxes |-> << >>]
    ELSE LET one == ParseLine(Head(lines))
             more == read_bboxes_unfiltered(Tail(lines))
         IN  IF one.exc # "none" THEN [exc |-> one.exc, bboxes |-> << >>]
             ELSE IF more.exc # "none" THEN more
             ELSE [exc |-> "none", bboxes |-> << one.bbox >> \o more.bboxes]

RECURSIVE read_bboxes(_)
\* read_bboxes(objects)
read_bboxes(lines) ==
    IF lines = << >> THEN [exc |-> "none", bboxes |-> << >>]
    ELSE IF lower(Head(lines)[1]) \notin DOMAIN CLASS_TO_INDEX
    THEN read_bboxes(Tail(lines))
    ELSE LET one == ParseLine(Head(lines))
             more == read_bboxes(Tail(lines))
         IN  IF one.exc # "none" THEN [exc |-> one.exc, bboxes |-> << >>]
             ELSE IF more.exc # "none" THEN more
             ELSE [exc |-> "none", bboxes |-> << one.bbox >> \o more.bboxes]

\* a line of a label file in the format of the data set: the class name,
\* three fields, the corners x1 y1 x2 y2, and a field after them
LabelLine(name, x1) == << name, 0, 0, 0, x1, 2, x1 + 4, 8, 1 >>

\* the lines read: lines in the format, of known and of unknown class
\* names, a line that holds a class name only, and the empty line
LinePool ==
    { LabelLine(name, x1) :
        name \in { "Car", "car", "Cyclist", "Van", "DontCare" },
        x1 \in { 0, 6 } }
      \cup { << "Misc" >>, << "" >> }

\* ---------------------------------------------------------------- state
VARIABLES
    bytedata,   \* KITTIIter.bytedata: the bytes not read yet
    source,     \* how the byte stream given to from_bytes was made (history)
    returns,    \* what each call on the reader returned or raised, in order
    num_x,      \* create_anchors: its arguments
    num_y,
    whs,
    made,       \* create_anchors: what it returned, once called
    labels,     \* batch_label_to_mx: its argument, a list of lists of boxes
    ex,         \* the example (from 1) and the box (from 1) the loops are at
    bx,
    taken_anchor_indices,
    final_label,
    decisions,  \* what was decided for each box so far (history)
    pc,         \* batch_label_to_mx: "loop", "done" or "raised"
    pack_arg,   \* the box handed to struct.pack in byteIter
    pack_bytes, \* the bytes struct.pack made of it, once packed
    unpack_out, \* what struct.unpack in read_label made of them, once unpacked
    objects,    \* read_bboxes: its argument, the lines of a label file
    parsed      \* read_bboxes: what it returned or raised, once called

varsRead == << bytedata, source, returns >>
varsAnchors == << num_x, num_y, whs, made >>
varsEncode == << labels, ex, bx, taken_anchor_indices, final_label, decisions, pc >>
varsCodec == << pack_arg, pack_bytes, unpack_out >>
varsParse == << objects, parsed >>
vars == << varsRead, varsAnchors, varsEncode, varsCodec, varsParse >>

\* no reader, no call of create_anchors, of batch_label_to_mx, of struct.pack
\* or of read_bboxes
NoReader == bytedata = << >> /\ source = [kind |-> "none"] /\ returns = << >>
NoAnchors == num_x = 0 /\ num_y = 0 /\ whs = << >> /\ made = [called |-> FALSE]
NoEncode ==
    /\ labels = << >> /\ ex = 0 /\ bx = 0 /\ taken_anchor_indices = {}
    /\ final_label = << >> /\ decisions = << >> /\ pc = "none"
NoCodec ==
    /\ pack_arg = << >> /\ pack_bytes = [called |-> FALSE]
    /\ unpack_out = [called |-> FALSE]
NoParse == objects = << >> /\ parsed = [called |-> FALSE]

\* ------------------------------------------------------------ the reader
\* KITTIIter.from_bytes(bytedata): a reader over the bytes of byteIter, or
\* over the first `cut` bytes of a hand-made record
InitRead ==
    /\ NoAnchors /\ NoEncode /\ NoCodec /\ NoParse
    /\ returns = << >>
    /\ \E n \in 0..MaxImageLen, m \in 0..MaxBoxes :
          \/ /\ bytedata = Join(byteIter(<< StreamImage(n) >>, << StreamBoxes(m) >>))
             /\ source = [kind |-> "byteIter", image |-> StreamImage(n),
                          bboxes |-> StreamBoxes(m), extra |-> 0,
                          cut |-> Len(bytedata), total |-> Len(bytedata)]
          \/ \E extra \in 0..MaxExtra :
                LET full == HandMadeRecord(StreamImage(n), StreamBoxes(m), extra)
                IN  \E cut \in 0..Len(full) :
                       /\ bytedata = SubSeq(full, 1, cut)
                       /\ source = [kind |-> "handmade", image |-> StreamImage(n),
                                    bboxes |-> StreamBoxes(m), extra |-> extra,
                                    cut |-> cut, total |-> Len(full)]

\* a call of read_image()
ReadImage ==
    /\ Len(returns) < MaxCalls
    /\ LET r == read_image(bytedata)
       IN  /\ bytedata' = r.rest
           /\ returns' = Append(returns, r)
    /\ UNCHANGED << source, varsAnchors, varsEncode, varsCodec, varsParse >>

\* a call of read_label()
ReadLabel ==
    /\ Len(returns) < MaxCalls
    /\ LET r == read_label(bytedata)
       IN  /\ bytedata' = r.rest
           /\ returns' = Append(returns, r)
    /\ UNCHANGED << source, varsAnchors, varsEncode, varsCodec, varsParse >>

NextRead == ReadImage \/ ReadLabel

SpecRead == InitRead /\ [][NextRead]_vars

\* ------------------------------------------------------- create_anchors
\* the grid sizes for which np.linspace yields whole pixels
GridSizes ==
    { n \in 1..MaxGrid : IMAGE_WIDTH % (n + 1) = 0 /\ IMAGE_HEIGHT % (n + 1) = 0 }

ShapePool == { << 2, 2 >>, << 4, 2 >> }

ShapeLists == UNION { [1..k -> ShapePool] : k \in 0..MaxShapes }

InitAnchors ==
    /\ NoReader /\ NoEncode /\ NoCodec /\ NoParse
    /\ num_x \in GridSizes
    /\ num_y \in GridSizes
    /\ whs \in ShapeLists
    /\ made = [called |-> FALSE]

\* a call of create_anchors(num_x, num_y, whs)
CreateAnchors ==
    /\ ~made.called
    /\ made' = [called |-> TRUE, result |-> create_anchors(num_x, num_y, whs)]
    /\ UNCHANGED << num_x, num_y, whs, varsRead, varsEncode, varsCodec,
                    varsParse >>

NextAnchors == CreateAnchors

SpecAnchors == InitAnchors /\ [][NextAnchors]_vars

\* ---------------------------------------------------- batch_label_to_mx
\* a call of batch_label_to_mx(labels), before its loops
InitEncode ==
    /\ NoReader /\ NoAnchors /\ NoCodec /\ NoParse
    /\ \E n \in 1..MaxBatch, k \in 0..MaxBatchBoxes :
          \E flat \in [1..k -> BoxPool], sizes \in [1..n -> 0..k] :
             /\ SumTo(sizes, n) = k
             /\ labels = Split(flat, sizes)
    /\ ex = Cursor(labels, 1, 1)[1]
    /\ bx = Cursor(labels, 1, 1)[2]
    /\ taken_anchor_indices = {}
    /\ final_label = Zeros(Len(labels))
    /\ decisions = << >>
    /\ pc = "loop"

\* one turn of the inner loop: the box labels[ex][bx]
EncodeBox ==
    /\ pc = "loop"
    /\ ex <= Len(labels)
    /\ \E bbox \in { labels[ex][bx] } :
       \E anchor_index \in { SelectAnchor(bbox) } :
       \E place \in { Placement(anchor_index) } :
       LET fallback == AllZero(batch_iou(anchors, bbox))
           claimed == anchor_index \in taken_anchor_indices
           after == Cursor(labels, ex, bx + 1)
       IN  /\ decisions' = Append(decisions,
                  [ex |-> ex, bx |-> bx, bbox |-> bbox, fallback |-> fallback,
                   anchor_index |-> anchor_index, written |-> ~claimed,
                   place |-> place])
           /\ taken_anchor_indices' = taken_anchor_indices \cup { anchor_index }
           /\ IF claimed
              THEN /\ UNCHANGED final_label
                   /\ ex' = after[1] /\ bx' = after[2] /\ pc' = "loop"
              ELSE IF CanWrite(place)
              THEN /\ final_label' = WriteBox(final_label, ex, place, bbox)
                   /\ ex' = after[1] /\ bx' = after[2] /\ pc' = "loop"
              ELSE /\ UNCHANGED << final_label, ex, bx >>
                   /\ pc' = "raised"
    /\ UNCHANGED << labels, varsRead, varsAnchors, varsCodec, varsParse >>

\* return nd.array(final_label)
Return ==
    /\ pc = "loop"
    /\ ex > Len(labels)
    /\ pc' = "done"
    /\ UNCHANGED << labels, ex, bx, taken_anchor_indices, final_label, decisions,
                    varsRead, varsAnchors, varsCodec, varsParse >>

NextEncode == EncodeBox \/ Return

SpecEncode == InitEncode /\ [][NextEncode]_vars

\* ------------------------------------------- the reader, batch by batch
\* the image and the boxes of the j-th record of a stream
IterImage(j, n) == [i \in 1..n |-> 16 * j + i]

IterBoxes(j, m) == [k \in 1..m |-> StreamBox(j + k - 1)]

\* the lists of records: every record of a list has n pixels and m boxes
RecordLists ==
    { [j \in 1..r |-> [image |-> IterImage(j, nm[1]),
                       bboxes |-> IterBoxes(j, nm[2])]] :
        r \in 0..MaxRecords,
        nm \in (0..MaxRecImage) \X (0..MaxRecBoxes) }

\* the records as KITTIWriter.byteIter writes them, back to back
WriterStream(records) ==
    Join(byteIter([j \in 1..Len(records) |-> records[j].image],
                  [j \in 1..Len(records) |-> records[j].bboxes]))

\* the records back to back, each laid out as read_image and read_label
\* read it
ReaderStream(records) ==
    Join([j \in 1..Len(records) |->
            HandMadeRecord(records[j].image, records[j].bboxes, 0)])

\* a size field that declares an image of one byte more than `body`, and
\* `body` as the bytes of that image: a record cut off inside its image
Overdeclared(body) ==
    ToBytesLE(Len(body) + 1, READ_IMAGE_SLOT) \o body

\* what a slot of nd.empty may hold
Uninit == { image_to_mx(<< >>), image_to_mx(IterImage(1, 1)) }

\* the sizes step is called with
StepSizes == { 0, BBOXES_BYTES_SLOT, READ_IMAGE_SLOT }

\* KITTIIter.from_bytes(bytedata, batch_size=batch_size): a reader over the
\* records as the writer writes them, or over records in the layout of the
\* reader, the last `drop` bytes cut off, as they are or as the image of an
\* overdeclared frame
InitIter ==
    /\ NoAnchors /\ NoEncode /\ NoCodec /\ NoParse
    /\ returns = << >>
    /\ \E records \in RecordLists, batch_size \in 1..MaxBatchSize :
          \/ /\ bytedata = Listed(WriterStream(records))
             /\ source = [kind |-> "byteIter", records |-> records,
                          batch_size |-> batch_size, drop |-> 0,
                          overdeclared |-> FALSE, stream |-> bytedata]
          \/ \E drop \in 0..MaxDrop, overdeclared \in BOOLEAN :
                LET full == ReaderStream(records)
                    body == SubSeq(full, 1, Len(full) - drop)
                IN  /\ drop <= Len(full)
                    /\ bytedata = IF overdeclared THEN Overdeclared(body)
                                  ELSE body
                    /\ source = [kind |-> "handmade", records |-> records,
                                 batch_size |-> batch_size, drop |-> drop,
                                 overdeclared |-> overdeclared,
                                 stream |-> bytedata]

\* a call of next()
Next ==
    /\ Len(returns) < MaxIterCalls
    /\ \E loop \in { NextLoop(bytedata, source.batch_size, 0, << >>, << >>) } :
       \E garbage \in [UnassignedKept(loop, source.batch_size) -> Uninit] :
       \E r \in { next(bytedata, source.batch_size, garbage) } :
          /\ bytedata' = r.rest
          /\ returns' = Append(returns, r)
    /\ UNCHANGED << source, varsAnchors, varsEncode, varsCodec, varsParse >>

\* a call of close(): record is None, nothing is done
Close ==
    /\ Len(returns) < MaxIterCalls
    /\ returns' = Append(returns, [op |-> "close", exc |-> "none",
                                   rest |-> bytedata])
    /\ UNCHANGED << bytedata, source, varsAnchors, varsEncode, varsCodec,
                    varsParse >>

\* a call of step(steps)
Step ==
    /\ Len(returns) < MaxIterCalls
    /\ \E steps \in StepSizes :
       \E r \in { step(bytedata, steps) } :
          /\ bytedata' = r.rest
          /\ returns' = Append(returns,
                 [op |-> "step", exc |-> IF r.ok THEN "none" ELSE "StopIteration",
                  warned |-> r.warned, steps |-> steps, rv |-> r.rv,
                  buf |-> bytedata, rest |-> r.rest])
    /\ UNCHANGED << source, varsAnchors, varsEncode, varsCodec, varsParse >>

NextIter == Next \/ Close \/ Step \/ ReadImage \/ ReadLabel

SpecIter == InitIter /\ [][NextIter]_vars

\* ------------------------------------------------- the codec of a box
\* the values a geometry field of a packed box takes: small ones, and the
\* ones around 2^24, where binary32 stops holding every whole number
FieldPool == (0..MaxField) \cup { Pow2(24) - 1 + d : d \in 0..MaxBeyond }

\* a box handed to struct.pack by byteIter
InitCodec ==
    /\ NoReader /\ NoAnchors /\ NoEncode /\ NoParse
    /\ pack_arg \in FieldPool \X FieldPool \X FieldPool \X FieldPool
                      \X (0..MaxClass)
    /\ pack_bytes = [called |-> FALSE]
    /\ unpack_out = [called |-> FALSE]

\* struct.pack(bbox_fmt, *bbox) in byteIter
Pack ==
    /\ ~pack_bytes.called
    /\ pack_bytes' = [called |-> TRUE, bytes |-> PackBBox(pack_arg)]
    /\ UNCHANGED << pack_arg, unpack_out, varsRead, varsAnchors, varsEncode,
                    varsParse >>

\* struct.unpack(self.label_fmt, self.step(label_size)) in read_label, on
\* the bytes of the entry; struct.error when the entry read has not the
\* width of label_fmt
Unpack ==
    /\ pack_bytes.called
    /\ ~unpack_out.called
    /\ \E s \in { step(pack_bytes.bytes, BBOX_FORMAT_SIZE) } :
          unpack_out' =
             IF ~s.ok THEN [called |-> TRUE, exc |-> "StopIteration"]
             ELSE IF Len(s.rv) # LABEL_FMT_SIZE
             THEN [called |-> TRUE, exc |-> "struct.error"]
             ELSE [called |-> TRUE, exc |-> "none", value |-> UnpackBBox(s.rv),
                   rest |-> s.rest]
    /\ UNCHANGED << pack_arg, pack_bytes, varsRead, varsAnchors, varsEncode,
                    varsParse >>

NextCodec == Pack \/ Unpack

SpecCodec == InitCodec /\ [][NextCodec]_vars

\* ------------------------------------------------------- read_bboxes
\* the lines of a label file, handed to read_bboxes
InitParse ==
    /\ NoReader /\ NoAnchors /\ NoEncode /\ NoCodec
    /\ objects \in UNION { [1..n -> LinePool] : n \in 0..MaxLines }
    /\ parsed = [called |-> FALSE]

\* a call of read_bboxes(objects)
ReadBBoxes ==
    /\ ~parsed.called
    /\ \E r \in { read_bboxes(objects) } :
          parsed' = [called |-> TRUE, exc |-> r.exc, bboxes |-> r.bboxes]
    /\ UNCHANGED << objects, varsRead, varsAnchors, varsEncode, varsCodec >>

NextParse == ReadBBoxes

SpecParse == InitParse /\ [][NextParse]_vars

\* ------------------------------------------- the choice of the anchor
\* batch_label_to_mx([[bbox]]) for a box anywhere in and around the image,
\* before its loops
InitSelect ==
    /\ NoReader /\ NoAnchors /\ NoCodec /\ NoParse
    /\ \E x \in 0..MaxBoxX, y \in 0..MaxBoxY, w \in 1..MaxBoxSide,
          h \in 1..MaxBoxSide :
             labels = << << << x, y, w, h, 0 >> >> >>
    /\ ex = 1
    /\ bx = 1
    /\ taken_anchor_indices = {}
    /\ final_label = Zeros(1)
    /\ decisions = << >>
    /\ pc = "loop"

SpecSelect == InitSelect /\ [][NextEncode]_vars

\* ================================================================ claims

\* C1: the bytes byteIter emits for one (image, boxes), loaded with
\* from_bytes and read with read_image then read_label, give back the image
\* and the boxes.
C1_RecordRoundTrip ==
    source.kind = "byteIter" =>
        /\ (Len(returns) >= 1 /\ returns[1].op = "read_image") =>
              (returns[1].exc = "none" /\ returns[1].value = source.image)
        /\ (Len(returns) >= 2 /\ returns[1].op = "read_image"
              /\ returns[2].op = "read_label") =>
              (returns[2].exc = "none" /\ returns[2].value = source.bboxes)

\* the decisions taken before the i-th one for boxes of the same example
\* that were assigned the same anchor
EarlierSameExample(i) ==
    { j \in 1..(i - 1) :
        /\ decisions[j].ex = decisions[i].ex
        /\ decisions[j].anchor_index = decisions[i].anchor_index }

\* C2: whether a box is written depends only on the earlier boxes of its own
\* example: a box is written unless an earlier box of the same example was
\* assigned the same anchor.
C2_ClaimedSetPerExample ==
    \A i \in 1..Len(decisions) :
        decisions[i].written <=> (EarlierSameExample(i) = {})

\* the square of the Euclidean distance of the box from anchor index a
Dist2(bbox, a) ==
    LET anchor == anchors[a + 1]
    IN  (bbox[1] - anchor[1]) * (bbox[1] - anchor[1])
          + (bbox[2] - anchor[2]) * (bbox[2] - anchor[2])
          + (bbox[3] - anchor[3]) * (bbox[3] - anchor[3])
          + (bbox[4] - anchor[4]) * (bbox[4] - anchor[4])

\* the anchor index nearest to the box, the lowest among equals
NearestAnchor(bbox) ==
    CHOOSE a \in 0..(Len(anchors) - 1) :
        /\ \A n \in 0..(Len(anchors) - 1) : Dist2(bbox, a) <= Dist2(bbox, n)
        /\ \A n \in 0..(a - 1) : Dist2(bbox, a) < Dist2(bbox, n)

\* C3: a box that has zero IoU with every anchor is assigned to the anchor
\* at the least Euclidean distance, and is written when that anchor is free.
C3_FallbackNearest ==
    \A i \in 1..Len(decisions) :
        decisions[i].fallback =>
            /\ decisions[i].anchor_index = NearestAnchor(decisions[i].bbox)
            /\ (\A j \in 1..(i - 1) :
                    decisions[j].anchor_index # decisions[i].anchor_index)
                  => decisions[i].written

\* the cell and the shape slot of anchor index a by the order of generation:
\* x outer, y inner, shape innermost
RecoveredPlace(a) ==
    LET num_shapes == Len(RANDOM_WIDTHS_HEIGHTS)
        num_ys == Len(create_anchors(GRID_WIDTH, GRID_HEIGHT,
                                     RANDOM_WIDTHS_HEIGHTS).ys)
        cell == a \div num_shapes
    IN  [grid_x |-> cell \div num_ys, grid_y |-> cell % num_ys,
         air |-> a % num_shapes]

\* C4: the cell and the shape offset used for a box assigned to an anchor
\* are the ones recovered from the anchor index by division and modulo, and
\* two anchor indices never share a (cell, shape slot).
C4_PlacementFromIndex ==
    \A i \in 1..Len(decisions) :
        decisions[i].written =>
            /\ decisions[i].place = RecoveredPlace(decisions[i].anchor_index)
            /\ \A j \in 1..Len(decisions) :
                  (decisions[j].written
                     /\ decisions[j].anchor_index # decisions[i].anchor_index)
                  => decisions[j].place # decisions[i].place

\* the tensor positions (channel, grid_x, grid_y) written for decision i
Positions(i) ==
    { << decisions[i].place.air + k, decisions[i].place.grid_x,
         decisions[i].place.grid_y >> : k \in 0..3 }

\* C5: the four positions written for an accepted box are never overwritten,
\* wholly or partly, by another box of the same example.
C5_OneBoxPerSlot ==
    \A i \in 1..Len(decisions) :
        decisions[i].written =>
            /\ \A k \in 0..3 :
                  At(final_label, decisions[i].ex, decisions[i].place.air + k,
                     decisions[i].place.grid_x, decisions[i].place.grid_y)
                    = decisions[i].bbox[k + 1]
            /\ \A j \in 1..Len(decisions) :
                  (j # i /\ decisions[j].written
                     /\ decisions[j].ex = decisions[i].ex)
                  => Positions(i) \cap Positions(j) = {}

\* the decision taken for box b of example e
DecisionOf(e, b) ==
    CHOOSE i \in 1..Len(decisions) : decisions[i].ex = e /\ decisions[i].bx = b

\* C6: of two boxes [b1, b2] of one example that are assigned the same
\* anchor, the first is written at the anchor's slot and the second dropped.
C6_FirstComeFirstServed ==
    pc = "done" =>
        \A e \in 1..Len(labels) :
            (/\ Len(labels[e]) = 2
             /\ labels[e][1] # labels[e][2]
             /\ decisions[DecisionOf(e, 1)].anchor_index
                  = decisions[DecisionOf(e, 2)].anchor_index)
            => LET d1 == decisions[DecisionOf(e, 1)]
                   d2 == decisions[DecisionOf(e, 2)]
               IN  /\ d1.written
                   /\ ~d2.written
                   /\ \A k \in 0..3 :
                         At(final_label, e, d1.place.air + k, d1.place.grid_x,
                            d1.place.grid_y) = labels[e][1][k + 1]

\* what the caller of a read sees of a failure: the exception, and whether
\* the warning was printed
Outcome(r) == [exc |-> r.exc, warned |-> r.warned]

\* the outcome of a read at a clean end of the stream: no byte is left at a
\* record boundary
CleanEndOutcome == Outcome(read_image(<< >>))

\* the read found the size of a frame but fewer bytes than that were left
Truncated(r) == r.exc = "StopIteration" /\ r.size > 0

\* C7: a read that finds fewer bytes than a declared frame requires reports
\* an outcome that differs from the outcome of a clean end of stream.
C7_TruncatedDistinct ==
    \A i \in 1..Len(returns) :
        Truncated(returns[i]) => Outcome(returns[i]) # CleanEndOutcome

\* the first `cut` bytes of the stream end inside the image blob
CutInImage ==
    /\ source.kind = "handmade"
    /\ source.cut >= READ_IMAGE_SLOT
    /\ source.cut < READ_IMAGE_SLOT + Len(source.image)

\* C8: read_image never returns an image of fewer bytes than the declared
\* image_size; on a stream cut off inside the image blob it fails.
C8_NoShortImage ==
    /\ \A i \in 1..Len(returns) :
          (returns[i].op = "read_image" /\ returns[i].exc = "none")
          => (Len(returns[i].blob) = returns[i].size
                /\ Len(returns[i].value) = returns[i].size)
    /\ (CutInImage /\ Len(returns) >= 1 /\ returns[1].op = "read_image")
          => returns[1].exc = "StopIteration"

\* read_image was called on a stream cut off inside the image blob, some
\* bytes of the image being left
C8_Witness ==
    /\ CutInImage
    /\ source.cut > READ_IMAGE_SLOT
    /\ Len(returns) >= 1
    /\ returns[1].op = "read_image"
    /\ returns[1].size = Len(source.image)
    /\ returns[1].exc = "StopIteration"

\* C9: read_label fails with the assertion error whenever the declared
\* length of the label blob is no multiple of the width of a box entry, and
\* returns labels_size / 20 boxes only when it is one.
C9_MalformedLabel ==
    \A i \in 1..Len(returns) :
        (returns[i].op = "read_label" /\ returns[i].size >= 0) =>
            /\ (returns[i].size % BBOX_FORMAT_SIZE # 0)
                  => returns[i].exc = "AssertionError"
            /\ (returns[i].exc = "none")
                  => /\ returns[i].size % BBOX_FORMAT_SIZE = 0
                     /\ Len(returns[i].value) = returns[i].size \div BBOX_FORMAT_SIZE

\* read_label was called on a label blob of 23 bytes and failed the assertion
C9_Witness ==
    \E i \in 1..Len(returns) :
        /\ returns[i].op = "read_label"
        /\ returns[i].size = 23
        /\ returns[i].exc = "AssertionError"

\* C10: whenever create_anchors returns, it yields num_x * num_y * len(whs)
\* anchors, from num_x x-centers and num_y y-centers, none on or outside the
\* image boundary.
C10_AnchorCount ==
    (made.called /\ made.result.exc = "none") =>
        /\ Len(made.result.anchors) = num_x * num_y * Len(whs)
        /\ Len(made.result.xs) = num_x
        /\ Len(made.result.ys) = num_y
        /\ \A n \in 1..Len(made.result.anchors) :
              /\ made.result.anchors[n][1] > 0
              /\ made.result.anchors[n][1] < IMAGE_WIDTH
              /\ made.result.anchors[n][2] > 0
              /\ made.result.anchors[n][2] < IMAGE_HEIGHT

RECURSIVE Delivered(_)
\* the examples (image, boxes) of the batches the first n calls returned
Delivered(n) ==
    IF n = 0 THEN << >>
    ELSE IF returns[n].op = "next" /\ returns[n].exc = "none"
    THEN Delivered(n - 1)
           \o [k \in 1..returns[n].read |->
                 [image |-> returns[n].examples[k].resized,
                  bboxes |-> returns[n].labels[k]]]
    ELSE Delivered(n - 1)

\* the calls made so far are calls of next(); what they returned are the
\* records of the stream in file order, each once, and a call signals the
\* end (StopIteration, nothing printed) only after the last record
RecordsInOrder ==
    (\A i \in 1..Len(returns) : returns[i].op = "next") =>
        /\ Len(Delivered(Len(returns))) <= Len(source.records)
        /\ \A k \in 1..Len(Delivered(Len(returns))) :
              Delivered(Len(returns))[k] = source.records[k]
        /\ \A i \in 1..Len(returns) :
              /\ returns[i].exc \in { "none", "StopIteration" }
              /\ returns[i].exc = "StopIteration" =>
                    /\ Len(Delivered(i)) = Len(source.records)
                    /\ ~returns[i].warned

\* C11: on a stream of n records written back to back by the writer,
\* successive calls of next() return the records in file order, each once,
\* and the call after the n-th signals a clean end of stream.
C11_RecordsInOrder ==
    source.kind = "byteIter" => RecordsInOrder

\* close() was called before the i-th call
ClosedBefore(i) == \E c \in 1..(i - 1) : returns[c].op = "close"

\* the i-th call asks for data: any read but a step of zero bytes
AsksData(i) ==
    /\ returns[i].op # "close"
    /\ ~(returns[i].op = "step" /\ returns[i].steps = 0)

\* C12: after close(), every read (next, read_image, read_label, step)
\* fails and returns no data, bytes left in the buffer or not.
C12_ReadsFailAfterClose ==
    \A i \in 1..Len(returns) :
        (ClosedBefore(i) /\ AsksData(i)) => returns[i].exc # "none"

\* v is a whole number that IEEE-754 binary32 holds exactly
IsBinary32(v) == v < Pow2(24) \/ v % Pow2(Log2(v) - 23) = 0

\* the distance between v and d
Gap(v, d) == IF v < d THEN d - v ELSE v - d

\* C13 as stated: for any box, unpacking the entry the writer packed gives
\* back the same five field values in the same order.
C13_AnyBoxRoundTrip ==
    unpack_out.called =>
        (unpack_out.exc = "none" /\ unpack_out.value = pack_arg)

\* C13, amended: the entry is unpacked without error and nothing of it is
\* left over; the class index comes back as it was; a geometry field that
\* binary32 holds exactly comes back as it was, and any other comes back as
\* a nearest value that binary32 holds.
C13_Binary32RoundTrip ==
    unpack_out.called =>
        /\ unpack_out.exc = "none"
        /\ unpack_out.rest = << >>
        /\ unpack_out.value[5] = pack_arg[5]
        /\ \A f \in 1..4 :
              /\ IsBinary32(pack_arg[f]) => unpack_out.value[f] = pack_arg[f]
              /\ IsBinary32(unpack_out.value[f])
              /\ \A d \in FieldPool :
                    IsBinary32(d) =>
                        Gap(pack_arg[f], unpack_out.value[f]) <= Gap(pack_arg[f], d)

\* a box of four different geometry fields that binary32 holds, one of them
\* 2^24, and a class index other than 0 was packed and unpacked
C13_Witness ==
    /\ unpack_out.called
    /\ unpack_out.exc = "none"
    /\ pack_arg = << 1, 2, Pow2(24) - 1, Pow2(24), 2 >>
    /\ unpack_out.value = pack_arg

\* the line holds the name of a known category
KnownLine(line) == lower(line[1]) \in DOMAIN CLASS_TO_INDEX

\* the lines of known class names among the first n lines of objects
KnownUpTo(n) == Cardinality({ i \in 1..n : KnownLine(objects[i]) })

\* C14: read_bboxes raises no error on lines of unknown class names, skips
\* them, and returns one box for each line of a known class name, in the
\* order of those lines.
C14_UnknownSkipped ==
    parsed.called =>
        /\ parsed.exc = "none"
        /\ Len(parsed.bboxes) = KnownUpTo(Len(objects))
        /\ \A i \in 1..Len(objects) :
              KnownLine(objects[i]) =>
                  parsed.bboxes[KnownUpTo(i)]
                    = << objects[i][5] + 2, 5, 4, 6,
                         CLASS_TO_INDEX[lower(objects[i][1])] >>

\* read_bboxes was called on three lines: a known class, an unknown class
\* with nothing but its name, and another known class
C14_Witness ==
    /\ parsed.called
    /\ Len(objects) = 3
    /\ objects[1] = LabelLine("Cyclist", 6)
    /\ objects[2] = << "Misc" >>
    /\ objects[3] = LabelLine("Car", 0)
    /\ parsed.bboxes = << << 8, 5, 4, 6, 2 >>, << 2, 5, 4, 6, 0 >> >>

\* the tensor positions written for the accepted boxes of example e
WrittenPositions(e) ==
    UNION { Positions(i) : i \in { j \in 1..Len(decisions) :
                                     decisions[j].ex = e /\ decisions[j].written } }

\* C15: a box is written, and its anchor marked claimed, if and only if no
\* earlier box of the same example was assigned its anchor, whatever its
\* score; a box whose anchor is claimed is dropped without error and written
\* nowhere.
C15_WrittenIffUnclaimed ==
    /\ \A i \in 1..Len(decisions) :
          /\ decisions[i].anchor_index \in taken_anchor_indices
          /\ decisions[i].written <=>
                (\A j \in 1..(i - 1) :
                    decisions[j].ex = decisions[i].ex
                      => decisions[j].anchor_index # decisions[i].anchor_index)
    /\ pc # "raised"
    /\ \A e \in 1..Len(final_label) :
          DOMAIN final_label[e] = WrittenPositions(e)

\* the anchor indices whose score for the box is the largest of all, under
\* the metric the encoder uses for the box
BestAnchors(box) ==
    UNION { { a \in 0..(Len(d) - 1) :
                \A n \in 0..(Len(d) - 1) : ~Less(d[a + 1], d[n + 1]) } :
            d \in { Listed(Distances(box)) } }

\* C16: of the anchors that share the largest score for a box, under the
\* metric used for that box, the encoder selects the one of lowest index.
C16_TieLowestIndex ==
    \A i \in 1..Len(decisions) :
        \A best \in { BestAnchors(decisions[i].bbox) } :
            /\ decisions[i].anchor_index \in best
            /\ \A a \in best : decisions[i].anchor_index <= a

\* a box was assigned an anchor by IoU while anchors 1 and 11 shared the
\* largest score
C16_Witness ==
    /\ Len(decisions) = 1
    /\ Cardinality(BestAnchors(decisions[1].bbox)) >= 2
    /\ ~decisions[1].fallback
    /\ decisions[1].bbox = << 3, 1, 2, 2, 0 >>
    /\ decisions[1].anchor_index = 1
    /\ BestAnchors(decisions[1].bbox) = { 1, 11 }

\* C17: once a call of next() has signalled the end of the stream or a
\* truncated record, no later call of next() returns a batch: the bytes left
\* after a truncated frame are not read as the start of a new record.
C17_StaysStopped ==
    \A i \in 1..Len(returns) : \A j \in (i + 1)..Len(returns) :
        (/\ returns[i].op = "next"
         /\ returns[i].exc = "StopIteration"
         /\ returns[j].op = "next")
        => returns[j].exc # "none"

\* C18: a batch returned by next() holds as many images as label entries,
\* the number k of complete examples read for it, 1 <= k <= batch_size; its
\* images are those of the k examples read, and its pad is batch_size - k.
C18_BatchShape ==
    \A i \in 1..Len(returns) :
        (returns[i].op = "next" /\ returns[i].exc = "none") =>
            /\ returns[i].read \in 1..returns[i].batch_size
            /\ Len(returns[i].images) = returns[i].read
            /\ Len(returns[i].label) = returns[i].read
            /\ returns[i].images = returns[i].examples
            /\ returns[i].pad = returns[i].batch_size - returns[i].read

\* a is the end of b
IsSuffix(a, b) ==
    /\ Len(a) <= Len(b)
    /\ a = SubSeq(b, Len(b) - Len(a) + 1, Len(b))

\* the buffer before the i-th call
BufferBefore(i) == IF i = 1 THEN source.stream ELSE returns[i - 1].rest

====
